---- MODULE Spec2Model ----
(***************************************************************************)
(* A model of the marketing-metadata audit tool.                           *)
(*                                                                         *)
(*   Spec        build_gtm_accounts of fetch.py, one container per step,   *)
(*               against an API that answers every call with a payload or  *)
(*               an HTTP error.                                            *)
(*   SpecMain    main of audit.py: configuration, credentials, the two     *)
(*               traversals of audit.py and the report, with what the run  *)
(*               writes to standard output and its exit code.              *)
(*   SpecGa      build_ga_accounts of fetch.py, one property per step.     *)
(*   SpecSummary an AuditReport of models.py whose lists grow by appends,  *)
(*               and its computed summary.                                 *)
(*   SpecLinks   _extract_ga4_measurement_ids of presenters.py over the    *)
(*               tags of a container, and the linkage lines rendered.      *)
(*   SpecGtmReport  build_gtm_accounts, then the report assembled of what  *)
(*               it returned and presented by format_text_report or        *)
(*               format_json_report of presenters.py.                      *)
(*   SpecGaReport   the same for build_ga_accounts.                         *)
(*                                                                         *)
(* Python values are modelled as follows.  A dict is a function whose      *)
(* DOMAIN is its key set (the empty dict is <<>>), a list is a sequence,   *)
(* an Optional[T] is a set of at most one T (None is {}), and a string     *)
(* that the code takes apart is a sequence of tokens.                      *)
(***************************************************************************)
EXTENDS Integers, Sequences, FiniteSets, TLC

VARIABLES
    \* ---- fetch.py, build_gtm_accounts ----
    gtm_pc,            \* "start" | "account" | "container" | "returned" | "raised"
    gtm_listing,       \* what _fetch_gtm_accounts returned (raw accounts)
    gtm_acc_i,         \* position of `for acc in ...` (1-based)
    gtm_containers,    \* `containers`: the raw listing of the current account
    gtm_cont_j,        \* position of `for cont in containers` (1-based)
    account_model,     \* the GtmAccount under construction
    gtm_accounts_list, \* `accounts_list`
    gtm_raised,        \* the exception that left build_gtm_accounts, or NoException
    gtm_cont_log,      \* per account begun: the raw container listing the API gave
    gtm_live_log,      \* per account begun: the live-version answers, in call order
    gtm_calls,         \* every API call made so far: [call, status], 200 when it answered
    \* ---- audit.py, main ----
    main_pc,           \* where main stands; "exited" once the process has ended
    args_json,         \* args.json
    config,            \* what load_config returned
    stdout,            \* the lines printed so far: [kind, text]
    stderr,            \* what the interpreter wrote to the error stream
    exit_code,         \* the exit code of the process, None while it runs
    main_outcome,      \* how the run ended, "running" before
    api_calls,         \* the number of API requests executed
    m_accounts,        \* iterations left in the `for acc in ...` of the traversal
    m_children,        \* iterations left in the inner `for cont/prop in ...`
    m_built,           \* the traversals that have returned: subset of {"gtm", "ga"}
    \* ---- fetch.py, build_ga_accounts ----
    ga_pc,             \* "idle" | "start" | "account" | "property" | "returned" | "raised"
    ga_listing,        \* what _fetch_ga_accounts returned (raw accounts)
    ga_acc_i,          \* position of `for acc in ...` (1-based)
    ga_properties,     \* `properties`: the raw listing of the current account
    ga_prop_j,         \* position of `for prop in properties` (1-based)
    ga_account_model,  \* the GaAccount under construction
    ga_accounts_list,  \* `accounts_list`
    ga_raised,         \* the exception that left build_ga_accounts, or NoException
    ga_stream_log,     \* per account begun, per property built: `streams_raw`
    \* ---- models.py, AuditReport ----
    report,            \* an AuditReport: [gtm_accounts, ga_accounts]
    \* ---- presenters.py, _extract_ga4_measurement_ids ----
    link_pc,           \* "idle" | "scan" | "scanned" | "rendered"
    container,         \* the GtmContainer whose tags are scanned
    link_tag_i,        \* position of `for tag in container.tags` (1-based)
    ids,               \* `ids`: the set built by the scan
    link_lines,        \* the measurement ids of the linkage lines, in line order
    \* ---- presenters.py, format_text_report and format_json_report ----
    pres_pc,           \* "idle" | "assembled" | "text" | "json"
    text_out,          \* the lines format_text_report returned: [kind, text, id, counts]
    json_out           \* the JSON document format_json_report returned, None before

gtmVars == <<gtm_pc, gtm_listing, gtm_acc_i, gtm_containers, gtm_cont_j,
             account_model, gtm_accounts_list, gtm_raised, gtm_cont_log,
             gtm_live_log, gtm_calls>>

mainVars == <<main_pc, args_json, config, stdout, stderr, exit_code,
              main_outcome, api_calls, m_accounts, m_children, m_built>>

gaVars == <<ga_pc, ga_listing, ga_acc_i, ga_properties, ga_prop_j,
            ga_account_model, ga_accounts_list, ga_raised, ga_stream_log>>

linkVars == <<link_pc, container, link_tag_i, ids, link_lines>>

presVars == <<pres_pc, text_out, json_out>>

vars == <<gtmVars, mainVars, gaVars, report, linkVars, presVars>>

\* what the steps of one component leave alone
GtmOnly == UNCHANGED <<mainVars, gaVars, report, linkVars, presVars>>
MainOnly == UNCHANGED <<gtmVars, gaVars, report, linkVars, presVars>>
GaOnly == UNCHANGED <<gtmVars, mainVars, report, linkVars, presVars>>
SummaryOnly == UNCHANGED <<gtmVars, mainVars, gaVars, linkVars, presVars>>
LinksOnly == UNCHANGED <<gtmVars, mainVars, gaVars, report, presVars>>
PresentOnly == UNCHANGED <<gtmVars, mainVars, gaVars, linkVars>>

----------------------------------------------------------------------------
(* Bounds of the modelled API world. *)

\* accounts in one account listing
MaxAccounts == 2
\* containers in the whole GTM world, summed over the accounts
MaxContainers == 3
\* entries in one listing answered to a traversal of audit.py
MaxListing == 2
\* accounts in one GA4 account listing
MaxGaAccounts == 1
\* properties in the whole GA4 world, summed over the accounts
MaxProperties == 2
\* data streams in the whole GA4 world, summed over the properties
MaxStreams == 2
\* appends made to the lists of one AuditReport
MaxAppends == 5
\* tags of the container handed to the presenter
MaxTags == 2

----------------------------------------------------------------------------
(* Python helpers. *)

None == {}
Some(v) == {v}
TheValue(opt) == CHOOSE v \in opt : TRUE

\* dict.get(k, default)
Get(d, k, default) == IF k \in DOMAIN d THEN d[k] ELSE default

\* the sequences over S of length 0..n
SeqUpTo(S, n) == UNION {[1..k -> S] : k \in 0..n}

\* [f(x) for x in s]
RECURSIVE SumLen(_)
SumLen(ss) == IF ss = <<>> THEN 0 ELSE Len(Head(ss)) + SumLen(Tail(ss))

\* an HTTP error response; the statuses the API is taken to answer with
HttpStatuses == {403, 404, 500}
HttpError(call, status) == [type |-> "HttpError", call |-> call, status |-> status]
ValidationError(what) == [type |-> "ValidationError", call |-> what, status |-> 0]
NoException == [type |-> "none", call |-> "none", status |-> 0]

----------------------------------------------------------------------------
(* models.py: pydantic models.  ModelBase ignores extra keys and accepts   *)
(* a field under its alias or under its own name.                          *)

HasField(raw, name, alias) == alias \in DOMAIN raw \/ name \in DOMAIN raw
Field(raw, name, alias) == IF alias \in DOMAIN raw THEN raw[alias] ELSE raw[name]
FieldOr(raw, name, alias, default) ==
    IF HasField(raw, name, alias) THEN Field(raw, name, alias) ELSE default

GtmVariable_valid(raw) ==
    /\ "name" \in DOMAIN raw
    /\ HasField(raw, "variable_id", "variableId")
    /\ "type" \in DOMAIN raw
GtmVariable_model_validate(raw) ==
    [name |-> raw["name"],
     variable_id |-> Field(raw, "variable_id", "variableId"),
     type |-> raw["type"]]

GtmTrigger_valid(raw) ==
    /\ "name" \in DOMAIN raw
    /\ HasField(raw, "trigger_id", "triggerId")
    /\ "type" \in DOMAIN raw
GtmTrigger_model_validate(raw) ==
    [name |-> raw["name"],
     trigger_id |-> Field(raw, "trigger_id", "triggerId"),
     type |-> raw["type"]]

GtmTag_valid(raw) ==
    /\ "name" \in DOMAIN raw
    /\ HasField(raw, "tag_id", "tagId")
    /\ "type" \in DOMAIN raw
\* `parameters` has no alias: only the key "parameters" fills it
GtmTag_model_validate(raw) ==
    [name |-> raw["name"],
     tag_id |-> Field(raw, "tag_id", "tagId"),
     type |-> raw["type"],
     firing_trigger_ids |-> FieldOr(raw, "firing_trigger_ids", "firingTriggerId", <<>>),
     parameters |-> IF "parameters" \in DOMAIN raw THEN Some(raw["parameters"]) ELSE None]

GtmContainer_model_validate(raw) ==
    [name |-> raw["name"],
     public_id |-> Field(raw, "public_id", "publicId"),
     container_id |-> Field(raw, "container_id", "containerId"),
     tags |-> <<>>,
     triggers |-> <<>>,
     variables |-> <<>>,
     live_version_id |-> None,
     error |-> None]

GtmAccount_model_validate(raw) ==
    [name |-> raw["name"],
     account_id |-> Field(raw, "account_id", "accountId"),
     containers |-> <<>>]

NoAccount == [name |-> "", account_id |-> "", containers |-> <<>>]

----------------------------------------------------------------------------
(* The GTM API world: what the Tag Manager API may answer. *)

RawAccounts ==
    {[path |-> "accounts/1", accountId |-> "1", name |-> "Acme"],
     [path |-> "accounts/2", accountId |-> "2", name |-> "Beta"]}

RawContainers ==
    {[path |-> "containers/10", containerId |-> "10", publicId |-> "GTM-A", name |-> "Web"],
     [path |-> "containers/20", containerId |-> "20", publicId |-> "GTM-B", name |-> "App"]}

RawGoogTag ==
    [name |-> "GA4 config", tagId |-> "1", type |-> "googtag",
     firingTriggerId |-> <<"5">>,
     parameter |-> <<[type |-> "template", key |-> "measurementId", value |-> "G-1"]>>]
RawHtmlTag == [name |-> "Pixel", tagId |-> "2", type |-> "html"]
\* a tag resource without its id: GtmTag.model_validate rejects it
RawBadTag == [name |-> "Broken", type |-> "html"]
RawTrigger == [name |-> "All pages", triggerId |-> "5", type |-> "pageview"]
RawVariableA == [name |-> "Url", variableId |-> "8", type |-> "u"]
RawVariableB == [name |-> "Ref", variableId |-> "9", type |-> "f"]

\* live versions: one without the "variable" key, one with every key and
\* without "containerVersionId", one whose tag list does not validate
LiveVersions ==
    {[containerVersionId |-> "7", tag |-> <<RawGoogTag, RawHtmlTag>>,
      trigger |-> <<RawTrigger>>],
     [tag |-> <<RawHtmlTag>>, trigger |-> <<>>,
      variable |-> <<RawVariableA, RawVariableB>>],
     [containerVersionId |-> "9", tag |-> <<RawHtmlTag, RawBadTag>>]}

\* the answer to one API call: a payload or an HTTP error status
Ok(payload) == [ok |-> TRUE, status |-> 200, body |-> Some(payload)]
Failed(status) == [ok |-> FALSE, status |-> status, body |-> None]

\* accounts().list(): the "account" key is absent when there is none
AccountListResponses ==
    {Ok(<<>>)} \cup {Ok([account |-> l]) : l \in SeqUpTo(RawAccounts, MaxAccounts)}
        \cup {Failed(s) : s \in HttpStatuses}

ContainersLeft == MaxContainers - SumLen(gtm_cont_log)
ContainerListResponses ==
    {Ok(<<>>)} \cup {Ok([container |-> l]) : l \in SeqUpTo(RawContainers, ContainersLeft)}
        \cup {Failed(s) : s \in HttpStatuses}

LiveVersionResponses ==
    {Ok(v) : v \in LiveVersions} \cup {Failed(s) : s \in HttpStatuses}

----------------------------------------------------------------------------
(* fetch.py *)

\* a variant that absorbs every HttpError of the lookup, not only the 404
_fetch_live_version_absorbing(resp) ==
    IF resp.ok THEN [raised |-> NoException, value |-> resp.body]
    ELSE [raised |-> NoException, value |-> None]

\* _fetch_live_version: the payload, None on a 404, or the HttpError raised
\* (the result is [raised, value])
_fetch_live_version(resp) ==
    IF resp.ok THEN [raised |-> NoException, value |-> resp.body]
    ELSE IF resp.status = 404 THEN [raised |-> NoException, value |-> None]
    ELSE [raised |-> HttpError("live", resp.status), value |-> None]

RawListsValid(live_version) ==
    /\ \A k \in DOMAIN Get(live_version, "tag", <<>>) :
           GtmTag_valid(Get(live_version, "tag", <<>>)[k])
    /\ \A k \in DOMAIN Get(live_version, "trigger", <<>>) :
           GtmTrigger_valid(Get(live_version, "trigger", <<>>)[k])
    /\ \A k \in DOMAIN Get(live_version, "variable", <<>>) :
           GtmVariable_valid(Get(live_version, "variable", <<>>)[k])

\* a variant that forgets to record the error on the container
NoLiveVersion_unmarked(container_model) == container_model

\* a variant that reads the payload's variables under the key "variables"
PopulateContainer_wrongKey(container_model, live_version) ==
    [container_model EXCEPT
        !.live_version_id =
            IF "containerVersionId" \in DOMAIN live_version
            THEN Some(live_version["containerVersionId"]) ELSE None,
        !.tags = [k \in DOMAIN Get(live_version, "tag", <<>>) |->
                    GtmTag_model_validate(Get(live_version, "tag", <<>>)[k])],
        !.triggers = [k \in DOMAIN Get(live_version, "trigger", <<>>) |->
                    GtmTrigger_model_validate(Get(live_version, "trigger", <<>>)[k])],
        !.variables = [k \in DOMAIN Get(live_version, "variables", <<>>) |->
                    GtmVariable_model_validate(Get(live_version, "variables", <<>>)[k])]]

\* the `if live_version is None: ... else: ...` of the container loop
NoLiveVersion(container_model) ==
    [container_model EXCEPT !.error = Some("No live version published")]

PopulateContainer(container_model, live_version) ==
    [container_model EXCEPT
        !.live_version_id =
            IF "containerVersionId" \in DOMAIN live_version
            THEN Some(live_version["containerVersionId"]) ELSE None,
        !.tags = [k \in DOMAIN Get(live_version, "tag", <<>>) |->
                    GtmTag_model_validate(Get(live_version, "tag", <<>>)[k])],
        !.triggers = [k \in DOMAIN Get(live_version, "trigger", <<>>) |->
                    GtmTrigger_model_validate(Get(live_version, "trigger", <<>>)[k])],
        !.variables = [k \in DOMAIN Get(live_version, "variable", <<>>) |->
                    GtmVariable_model_validate(Get(live_version, "variable", <<>>)[k])]]

GtmRaise(exc) ==
    /\ gtm_pc' = "raised"
    /\ gtm_raised' = exc

GtmCalled(call, resp) ==
    gtm_calls' = Append(gtm_calls, [call |-> call, status |-> resp.status])

\* a variant that leaves a container without a live version out of the account
AppendContainer_skipDegraded(account, container_model) ==
    IF container_model.error # None THEN account
    ELSE [account EXCEPT !.containers = Append(@, container_model)]

\* account_model.containers.append(container_model)
AppendContainer(account, container_model) ==
    [account EXCEPT !.containers = Append(@, container_model)]

\* accounts_list = []; the iterable of `for acc in _fetch_gtm_accounts(service)`
FetchGtmAccounts ==
    /\ gtm_pc = "start"
    /\ \E resp \in AccountListResponses :
        /\ GtmCalled("accounts", resp)
        /\ IF resp.ok
           THEN /\ gtm_listing' = Get(TheValue(resp.body), "account", <<>>)
                /\ gtm_acc_i' = 1
                /\ gtm_pc' = "account"
                /\ UNCHANGED gtm_raised
           ELSE /\ GtmRaise(HttpError("accounts", resp.status))
                /\ UNCHANGED <<gtm_listing, gtm_acc_i>>
    /\ UNCHANGED <<gtm_containers, gtm_cont_j, account_model, gtm_accounts_list,
                   gtm_cont_log, gtm_live_log>>
    /\ GtmOnly

\* top of the account loop: validate the account, list its containers
BeginAccount ==
    /\ gtm_pc = "account"
    /\ gtm_acc_i <= Len(gtm_listing)
    /\ account_model' = GtmAccount_model_validate(gtm_listing[gtm_acc_i])
    /\ \E resp \in ContainerListResponses :
        /\ GtmCalled("containers", resp)
        /\ IF resp.ok
           THEN /\ gtm_containers' = Get(TheValue(resp.body), "container", <<>>)
                /\ gtm_cont_j' = 1
                /\ gtm_pc' = "container"
                /\ gtm_cont_log' = Append(gtm_cont_log, gtm_containers')
                /\ gtm_live_log' = Append(gtm_live_log, <<>>)
                /\ UNCHANGED gtm_raised
           ELSE /\ GtmRaise(HttpError("containers", resp.status))
                /\ UNCHANGED <<gtm_containers, gtm_cont_j, gtm_cont_log, gtm_live_log>>
    /\ UNCHANGED <<gtm_listing, gtm_acc_i, gtm_accounts_list>>
    /\ GtmOnly

\* one pass of `for cont in containers`
ProcessContainer ==
    /\ gtm_pc = "container"
    /\ gtm_cont_j <= Len(gtm_containers)
    /\ \E resp \in LiveVersionResponses :
        LET container_model == GtmContainer_model_validate(gtm_containers[gtm_cont_j])
            fetched == _fetch_live_version(resp)
            live_version == fetched.value
            appended(c) ==
                /\ account_model' = AppendContainer(account_model, c)
                /\ gtm_cont_j' = gtm_cont_j + 1
                /\ UNCHANGED <<gtm_pc, gtm_raised>>
        IN  /\ GtmCalled("live", resp)
            /\ gtm_live_log' =
                 [gtm_live_log EXCEPT ![Len(gtm_live_log)] = Append(@, resp)]
            /\ IF fetched.raised # NoException
               THEN /\ GtmRaise(fetched.raised)
                    /\ UNCHANGED <<account_model, gtm_cont_j>>
               ELSE IF live_version = None
               THEN appended(NoLiveVersion(container_model))
               ELSE IF ~RawListsValid(TheValue(live_version))
               THEN /\ GtmRaise(ValidationError("live"))
                    /\ UNCHANGED <<account_model, gtm_cont_j>>
               ELSE appended(PopulateContainer(container_model, TheValue(live_version)))
    /\ UNCHANGED <<gtm_listing, gtm_acc_i, gtm_containers, gtm_accounts_list,
                   gtm_cont_log>>
    /\ GtmOnly

\* the container loop is exhausted: accounts_list.append(account_model)
EndAccount ==
    /\ gtm_pc = "container"
    /\ gtm_cont_j > Len(gtm_containers)
    /\ gtm_accounts_list' = Append(gtm_accounts_list, account_model)
    /\ gtm_acc_i' = gtm_acc_i + 1
    /\ gtm_pc' = "account"
    /\ UNCHANGED <<gtm_listing, gtm_containers, gtm_cont_j, account_model,
                   gtm_raised, gtm_cont_log, gtm_live_log, gtm_calls>>
    /\ GtmOnly

\* the account loop is exhausted: return accounts_list
ReturnGtmAccounts ==
    /\ gtm_pc = "account"
    /\ gtm_acc_i > Len(gtm_listing)
    /\ gtm_pc' = "returned"
    /\ UNCHANGED <<gtm_listing, gtm_acc_i, gtm_containers, gtm_cont_j,
                   account_model, gtm_accounts_list, gtm_raised, gtm_cont_log,
                   gtm_live_log, gtm_calls>>
    /\ GtmOnly

GtmInit ==
    /\ gtm_pc = "start"
    /\ gtm_listing = <<>>
    /\ gtm_acc_i = 0
    /\ gtm_containers = <<>>
    /\ gtm_cont_j = 0
    /\ account_model = NoAccount
    /\ gtm_accounts_list = <<>>
    /\ gtm_raised = NoException
    /\ gtm_cont_log = <<>>
    /\ gtm_live_log = <<>>
    /\ gtm_calls = <<>>

GtmNext ==
    \/ FetchGtmAccounts
    \/ BeginAccount
    \/ ProcessContainer
    \/ EndAccount
    \/ ReturnGtmAccounts

MainIdle ==
    /\ main_pc = "idle"
    /\ args_json = FALSE
    /\ config = <<>>
    /\ stdout = <<>>
    /\ stderr = <<>>
    /\ exit_code = None
    /\ main_outcome = "running"
    /\ api_calls = 0
    /\ m_accounts = 0
    /\ m_children = 0
    /\ m_built = {}

GaIdle ==
    /\ ga_pc = "idle"
    /\ ga_listing = <<>>
    /\ ga_acc_i = 0
    /\ ga_properties = <<>>
    /\ ga_prop_j = 0
    /\ ga_account_model = [display_name |-> "", account_id |-> <<>>, properties |-> <<>>]
    /\ ga_accounts_list = <<>>
    /\ ga_raised = NoException
    /\ ga_stream_log = <<>>

EmptyReport == [gtm_accounts |-> <<>>, ga_accounts |-> <<>>]

EmptyContainer ==
    [name |-> "Web", public_id |-> "GTM-A", container_id |-> "10",
     tags |-> <<>>, triggers |-> <<>>, variables |-> <<>>,
     live_version_id |-> None, error |-> None]

LinksIdle ==
    /\ link_pc = "idle"
    /\ container = EmptyContainer
    /\ link_tag_i = 0
    /\ ids = {}
    /\ link_lines = <<>>

PresIdle ==
    /\ pres_pc = "idle"
    /\ text_out = <<>>
    /\ json_out = None

Init == GtmInit /\ MainIdle /\ GaIdle /\ report = EmptyReport /\ LinksIdle /\ PresIdle

Next == GtmNext

Spec == Init /\ [][Next]_vars

----------------------------------------------------------------------------
(* audit.py: main and the functions it calls. *)

\* print(...): everything main and its callees write goes through print,
\* which writes to standard output
WriteStdout(kind, text) == stdout' = Append(stdout, [kind |-> kind, text |-> text])
WriteStdout2(kind1, text1, kind2, text2) ==
    stdout' = stdout \o <<[kind |-> kind1, text |-> text1],
                           [kind |-> kind2, text |-> text2]>>

\* main returns (or an exception escapes it) and the interpreter exits
ProcessExit(code, outcome) ==
    /\ main_pc' = "exited"
    /\ exit_code' = Some(code)
    /\ main_outcome' = outcome

\* what open/json.load of config.json can come to
ConfigFiles ==
    {[state |-> "missing", json |-> <<>>],
     [state |-> "unparsable", json |-> <<>>],
     [state |-> "not_object", json |-> <<>>],
     [state |-> "object", json |-> <<>>],
     [state |-> "object", json |-> [credentials_path |-> ""]],
     [state |-> "object", json |-> [credentials_path |-> "sa.json"]]}

\* load_config: whatever json.load gave, or {} after printing the error
load_config(file) == IF file.state = "object" THEN file.json ELSE <<>>

\* config = load_config(CONFIG_PATH); credentials_path = config.get(...);
\* if not credentials_path: print(...); return
LoadConfig ==
    /\ main_pc = "load_config"
    /\ \E file \in ConfigFiles :
        LET credentials_path == Get(load_config(file), "credentials_path", "")
        IN  /\ config' = load_config(file)
            /\ IF file.state = "not_object"
               THEN \* json.load gave a list or a scalar: config.get raises
                    \* AttributeError outside the try block
                    /\ stderr' = <<"Traceback: AttributeError">>
                    /\ ProcessExit(1, "config_failure")
                    /\ UNCHANGED stdout
               ELSE IF credentials_path = ""
               THEN /\ IF file.state = "missing"
                       THEN WriteStdout2("error", "Error: Configuration file not found",
                                   "error", "Error: 'credentials_path' not found in configuration.")
                       ELSE IF file.state = "unparsable"
                       THEN WriteStdout2("error", "Error loading configuration",
                                   "error", "Error: 'credentials_path' not found in configuration.")
                       ELSE WriteStdout("error", "Error: 'credentials_path' not found in configuration.")
                    /\ ProcessExit(0, "config_failure")
                    /\ UNCHANGED stderr
               ELSE /\ main_pc' = "get_credentials"
                    /\ UNCHANGED <<stdout, stderr, exit_code, main_outcome>>
    /\ UNCHANGED <<args_json, api_calls, m_accounts, m_children, m_built>>
    /\ MainOnly

\* creds = get_credentials(credentials_path); if not creds: return
GetCredentials ==
    /\ main_pc = "get_credentials"
    /\ \E loaded \in {"ok", "missing", "invalid"} :
        IF loaded = "ok"
        THEN /\ main_pc' = "build"
             /\ UNCHANGED <<stdout, exit_code, main_outcome>>
        ELSE /\ WriteStdout("error", IF loaded = "missing"
                               THEN "Error: Credentials file not found"
                               ELSE "An error occurred during authentication")
             /\ ProcessExit(0, "auth_failure")
    /\ UNCHANGED <<args_json, config, stderr, api_calls, m_accounts, m_children, m_built>>
    /\ MainOnly

\* the handlers of main's try block
ExceptHttpError ==
    /\ WriteStdout("error", "An API HTTP error occurred")
    /\ ProcessExit(0, "api_failure")
ExceptException ==
    /\ WriteStdout("error", "An unexpected error occurred")
    /\ ProcessExit(0, "unexpected_failure")

\* the two build(...) calls, then print("Fetching GTM data...")
BuildServices ==
    /\ main_pc = "build"
    /\ \E built \in BOOLEAN :
        IF built
        THEN /\ WriteStdout("status", "Fetching GTM data...")
             /\ main_pc' = "gtm_accounts"
             /\ UNCHANGED <<exit_code, main_outcome>>
        ELSE ExceptException
    /\ UNCHANGED <<args_json, config, stderr, api_calls, m_accounts, m_children, m_built>>
    /\ MainOnly

\* one .execute() of a traversal: a listing of n entries or an HttpError
Listings == [ok : {TRUE}, n : 0..MaxListing] \cup [ok : {FALSE}, n : {0}]

\* fetch_gtm_accounts / fetch_ga_accounts: the outer listing of a traversal
FetchAccounts(side) ==
    /\ main_pc = side \o "_accounts"
    /\ api_calls' = api_calls + 1
    /\ \E resp \in Listings :
        IF resp.ok
        THEN /\ m_accounts' = resp.n
             /\ main_pc' = side \o "_account"
             /\ UNCHANGED <<stdout, exit_code, main_outcome>>
        ELSE /\ ExceptHttpError
             /\ UNCHANGED m_accounts
    /\ UNCHANGED <<args_json, config, stderr, m_children, m_built>>
    /\ MainOnly

\* `for acc in ...`: fetch_gtm_containers / fetch_ga_properties of the account
FetchChildren(side) ==
    /\ main_pc = side \o "_account"
    /\ m_accounts > 0
    /\ api_calls' = api_calls + 1
    /\ \E resp \in Listings :
        IF resp.ok
        THEN /\ m_children' = resp.n
             /\ main_pc' = side \o "_child"
             /\ UNCHANGED <<stdout, exit_code, main_outcome>>
        ELSE /\ ExceptHttpError
             /\ UNCHANGED m_children
    /\ UNCHANGED <<args_json, config, stderr, m_accounts, m_built>>
    /\ MainOnly

\* `for cont in containers` / `for prop in properties`: fetch_gtm_tags /
\* fetch_ga_data_streams of the child, which is then appended
FetchLeaves(side) ==
    /\ main_pc = side \o "_child"
    /\ m_children > 0
    /\ api_calls' = api_calls + 1
    /\ \E resp \in Listings :
        IF resp.ok
        THEN /\ m_children' = m_children - 1
             /\ UNCHANGED <<main_pc, stdout, exit_code, main_outcome>>
        ELSE /\ ExceptHttpError
             /\ UNCHANGED m_children
    /\ UNCHANGED <<args_json, config, stderr, m_accounts, m_built>>
    /\ MainOnly

\* the inner loop is exhausted: accounts_list.append(account_model)
AccountDone(side) ==
    /\ main_pc = side \o "_child"
    /\ m_children = 0
    /\ m_accounts' = m_accounts - 1
    /\ main_pc' = side \o "_account"
    /\ UNCHANGED <<args_json, config, stdout, stderr, exit_code, main_outcome,
                   api_calls, m_children, m_built>>
    /\ MainOnly

\* a variant that prints the GTM part of the report as soon as it is built
GtmAccountsBuilt_printsEarly ==
    /\ main_pc = "gtm_account"
    /\ m_accounts = 0
    /\ m_built' = m_built \cup {"gtm"}
    /\ WriteStdout2("report", IF args_json THEN "json" ELSE "text",
                    "status", "Fetching GA4 data...")
    /\ main_pc' = "ga_accounts"
    /\ UNCHANGED <<args_json, config, stderr, exit_code, main_outcome,
                   api_calls, m_accounts, m_children>>
    /\ MainOnly

\* build_gtm_accounts returns; print("Fetching GA4 data...")
GtmAccountsBuilt ==
    /\ main_pc = "gtm_account"
    /\ m_accounts = 0
    /\ m_built' = m_built \cup {"gtm"}
    /\ WriteStdout("status", "Fetching GA4 data...")
    /\ main_pc' = "ga_accounts"
    /\ UNCHANGED <<args_json, config, stderr, exit_code, main_outcome,
                   api_calls, m_accounts, m_children>>
    /\ MainOnly

\* build_ga_accounts returns; report = AuditReport(...)
GaAccountsBuilt ==
    /\ main_pc = "ga_account"
    /\ m_accounts = 0
    /\ m_built' = m_built \cup {"ga"}
    /\ main_pc' = "report"
    /\ UNCHANGED <<args_json, config, stdout, stderr, exit_code, main_outcome,
                   api_calls, m_accounts, m_children>>
    /\ MainOnly

\* if args.json: print(report.model_dump_json(...)) else: print_text_report(report)
EmitReport ==
    /\ main_pc = "report"
    /\ WriteStdout("report", IF args_json THEN "json" ELSE "text")
    /\ ProcessExit(0, "success")
    /\ UNCHANGED <<args_json, config, stderr, api_calls, m_accounts, m_children, m_built>>
    /\ MainOnly

MainInit ==
    /\ main_pc = "load_config"
    /\ args_json \in BOOLEAN
    /\ config = <<>>
    /\ stdout = <<>>
    /\ stderr = <<>>
    /\ exit_code = None
    /\ main_outcome = "running"
    /\ api_calls = 0
    /\ m_accounts = 0
    /\ m_children = 0
    /\ m_built = {}

MainNext ==
    \/ LoadConfig
    \/ GetCredentials
    \/ BuildServices
    \/ FetchAccounts("gtm")
    \/ FetchChildren("gtm")
    \/ FetchLeaves("gtm")
    \/ AccountDone("gtm")
    \/ GtmAccountsBuilt
    \/ FetchAccounts("ga")
    \/ FetchChildren("ga")
    \/ FetchLeaves("ga")
    \/ AccountDone("ga")
    \/ GaAccountsBuilt
    \/ EmitReport

\* a run of main alone: build_gtm_accounts of fetch.py stays where it starts
InitMain ==
    MainInit /\ GtmInit /\ GaIdle /\ report = EmptyReport /\ LinksIdle /\ PresIdle

SpecMain == InitMain /\ [][MainNext]_vars

----------------------------------------------------------------------------
(* fetch.py: build_ga_accounts.  A resource name and a stream type are     *)
(* sequences of tokens, so that split and replace act on them.             *)

\* str.replace(old, new): every non-overlapping occurrence, left to right
RECURSIVE Replace(_, _, _)
Replace(str, old, new) ==
    IF Len(str) < Len(old) THEN str
    ELSE IF SubSeq(str, 1, Len(old)) = old
    THEN new \o Replace(SubSeq(str, Len(old) + 1, Len(str)), old, new)
    ELSE <<Head(str)>> \o Replace(Tail(str), old, new)

\* str.split(sep) for a one-token separator: the list of the pieces
RECURSIVE Split(_, _)
Split(str, sep) ==
    IF \A k \in DOMAIN str : str[k] # sep THEN <<str>>
    ELSE LET at == CHOOSE k \in DOMAIN str :
                       str[k] = sep /\ \A m \in 1..(k - 1) : str[m] # sep
         IN  <<SubSeq(str, 1, at - 1)>> \o Split(SubSeq(str, at + 1, Len(str)), sep)

_DATA_STREAM == <<"_", "DATA", "_", "STREAM">>
WEB == <<"WEB">>
IOS_APP == <<"IOS", "_", "APP">>
ANDROID_APP == <<"ANDROID", "_", "APP">>

RawGaAccounts ==
    {[name |-> <<"accounts", "/", "100">>, displayName |-> "Acme"],
     [name |-> <<"accounts", "/", "200">>, displayName |-> "Beta"]}

RawGaProperties ==
    {[name |-> <<"properties", "/", "31">>, displayName |-> "Site",
      timeZone |-> "UTC", currencyCode |-> "USD", parent |-> "accounts/100"],
     [name |-> <<"properties", "/", "32">>, displayName |-> "Shop",
      timeZone |-> "CET", currencyCode |-> "EUR", parent |-> "accounts/100"]}

\* the stream resources the Admin API is taken to answer with: each of its
\* four types with its own nested field, and streams whose nested fields do
\* not go with their type
RawStreams ==
    {[displayName |-> "web", type |-> WEB \o _DATA_STREAM,
      webStreamData |-> [measurementId |-> "G-123"]],
     [displayName |-> "web with app data", type |-> WEB \o _DATA_STREAM,
      iosAppStreamData |-> [firebaseAppId |-> "1:ios"]],
     [displayName |-> "ios", type |-> IOS_APP \o _DATA_STREAM,
      iosAppStreamData |-> [firebaseAppId |-> "1:ios"]],
     [displayName |-> "android", type |-> ANDROID_APP \o _DATA_STREAM,
      androidAppStreamData |-> [firebaseAppId |-> "1:android"],
      webStreamData |-> [measurementId |-> "G-789"]],
     [displayName |-> "unspecified",
      type |-> <<"DATA", "_", "STREAM", "_", "TYPE", "_", "UNSPECIFIED">>,
      webStreamData |-> [measurementId |-> "G-999"]]}

GaAccountListResponses ==
    {Ok(<<>>)} \cup {Ok([accounts |-> l]) : l \in SeqUpTo(RawGaAccounts, MaxGaAccounts)}
        \cup {Failed(s) : s \in HttpStatuses}

RECURSIVE SumSumLen(_)
SumSumLen(sss) == IF sss = <<>> THEN 0 ELSE SumLen(Head(sss)) + SumSumLen(Tail(sss))

\* every property listed so far has been built when the next listing is asked
PropertiesLeft == MaxProperties - SumLen(ga_stream_log)
PropertyListResponses ==
    {Ok(<<>>)} \cup {Ok([properties |-> l]) : l \in SeqUpTo(RawGaProperties, PropertiesLeft)}
        \cup {Failed(s) : s \in HttpStatuses}

StreamsLeft == MaxStreams - SumSumLen(ga_stream_log)
StreamListResponses ==
    {Ok(<<>>)} \cup {Ok([dataStreams |-> l]) : l \in SeqUpTo(RawStreams, StreamsLeft)}
        \cup {Failed(s) : s \in HttpStatuses}

\* stream.get(outer, {}).get(inner)
NestedGet(stream, outer, inner) ==
    IF outer \in DOMAIN stream /\ inner \in DOMAIN stream[outer]
    THEN Some(stream[outer][inner]) ELSE None

\* a variant that knows web streams only
ExtractMeasurementId_webOnly(stream, stream_type) ==
    IF stream_type = WEB THEN NestedGet(stream, "webStreamData", "measurementId")
    ELSE None

\* the if/elif chain that picks the identifier of a stream
ExtractMeasurementId(stream, stream_type) ==
    IF stream_type = WEB THEN NestedGet(stream, "webStreamData", "measurementId")
    ELSE IF stream_type = IOS_APP
    THEN NestedGet(stream, "iosAppStreamData", "firebaseAppId")
    ELSE IF stream_type = ANDROID_APP
    THEN NestedGet(stream, "androidAppStreamData", "firebaseAppId")
    ELSE None

\* one pass of `for stream in streams_raw`: the GaDataStream appended
BuildDataStream(stream) ==
    LET stream_type == Replace(stream["type"], _DATA_STREAM, <<>>)
    IN  [display_name |-> stream["displayName"],
         type |-> stream_type,
         measurement_id |-> ExtractMeasurementId(stream, stream_type)]

\* GaProperty(property_id=prop_id, data_streams=streams_list, **prop)
BuildProperty(prop, streams_list) ==
    [display_name |-> prop["displayName"],
     property_id |-> Split(prop["name"], "/")[2],
     time_zone |-> prop["timeZone"],
     currency_code |-> prop["currencyCode"],
     data_streams |-> streams_list]

\* GaAccount(display_name=acc["displayName"], account_id=account_id)
BuildGaAccount(acc) ==
    [display_name |-> acc["displayName"],
     account_id |-> Split(acc["name"], "/")[2],
     properties |-> <<>>]

GaRaise(exc) ==
    /\ ga_pc' = "raised"
    /\ ga_raised' = exc

\* accounts_list = []; the iterable of `for acc in _fetch_ga_accounts(service)`
FetchGaAccounts ==
    /\ ga_pc = "start"
    /\ \E resp \in GaAccountListResponses :
        IF resp.ok
        THEN /\ ga_listing' = Get(TheValue(resp.body), "accounts", <<>>)
             /\ ga_acc_i' = 1
             /\ ga_pc' = "account"
             /\ UNCHANGED ga_raised
        ELSE /\ GaRaise(HttpError("accounts", resp.status))
             /\ UNCHANGED <<ga_listing, ga_acc_i>>
    /\ UNCHANGED <<ga_properties, ga_prop_j, ga_account_model, ga_accounts_list,
                   ga_stream_log>>
    /\ GaOnly

\* top of the account loop: build the GaAccount, list its properties
BeginGaAccount ==
    /\ ga_pc = "account"
    /\ ga_acc_i <= Len(ga_listing)
    /\ ga_account_model' = BuildGaAccount(ga_listing[ga_acc_i])
    /\ \E resp \in PropertyListResponses :
        IF resp.ok
        THEN /\ ga_properties' = Get(TheValue(resp.body), "properties", <<>>)
             /\ ga_prop_j' = 1
             /\ ga_pc' = "property"
             /\ ga_stream_log' = Append(ga_stream_log, <<>>)
             /\ UNCHANGED ga_raised
        ELSE /\ GaRaise(HttpError("properties", resp.status))
             /\ UNCHANGED <<ga_properties, ga_prop_j, ga_stream_log>>
    /\ UNCHANGED <<ga_listing, ga_acc_i, ga_accounts_list>>
    /\ GaOnly

\* one pass of `for prop in properties`
ProcessProperty ==
    /\ ga_pc = "property"
    /\ ga_prop_j <= Len(ga_properties)
    /\ \E resp \in StreamListResponses :
        IF resp.ok
        THEN LET streams_raw == Get(TheValue(resp.body), "dataStreams", <<>>)
                 streams_list == [k \in DOMAIN streams_raw |->
                                     BuildDataStream(streams_raw[k])]
             IN  /\ ga_account_model' =
                      [ga_account_model EXCEPT !.properties =
                          Append(@, BuildProperty(ga_properties[ga_prop_j], streams_list))]
                 /\ ga_stream_log' =
                      [ga_stream_log EXCEPT ![Len(ga_stream_log)] = Append(@, streams_raw)]
                 /\ ga_prop_j' = ga_prop_j + 1
                 /\ UNCHANGED <<ga_pc, ga_raised>>
        ELSE /\ GaRaise(HttpError("dataStreams", resp.status))
             /\ UNCHANGED <<ga_account_model, ga_stream_log, ga_prop_j>>
    /\ UNCHANGED <<ga_listing, ga_acc_i, ga_properties, ga_accounts_list>>
    /\ GaOnly

\* the property loop is exhausted: accounts_list.append(account_model)
EndGaAccount ==
    /\ ga_pc = "property"
    /\ ga_prop_j > Len(ga_properties)
    /\ ga_accounts_list' = Append(ga_accounts_list, ga_account_model)
    /\ ga_acc_i' = ga_acc_i + 1
    /\ ga_pc' = "account"
    /\ UNCHANGED <<ga_listing, ga_properties, ga_prop_j, ga_account_model,
                   ga_raised, ga_stream_log>>
    /\ GaOnly

\* the account loop is exhausted: return accounts_list
ReturnGaAccounts ==
    /\ ga_pc = "account"
    /\ ga_acc_i > Len(ga_listing)
    /\ ga_pc' = "returned"
    /\ UNCHANGED <<ga_listing, ga_acc_i, ga_properties, ga_prop_j,
                   ga_account_model, ga_accounts_list, ga_raised, ga_stream_log>>
    /\ GaOnly

GaInit ==
    /\ ga_pc = "start"
    /\ ga_listing = <<>>
    /\ ga_acc_i = 0
    /\ ga_properties = <<>>
    /\ ga_prop_j = 0
    /\ ga_account_model = [display_name |-> "", account_id |-> <<>>, properties |-> <<>>]
    /\ ga_accounts_list = <<>>
    /\ ga_raised = NoException
    /\ ga_stream_log = <<>>

GaNext ==
    \/ FetchGaAccounts
    \/ BeginGaAccount
    \/ ProcessProperty
    \/ EndGaAccount
    \/ ReturnGaAccounts

\* a run of build_ga_accounts alone
InitGa ==
    GaInit /\ GtmInit /\ MainIdle /\ report = EmptyReport /\ LinksIdle /\ PresIdle

SpecGa == InitGa /\ [][GaNext]_vars

----------------------------------------------------------------------------
(* models.py: AuditReport and its computed summary. *)

AuditSummary ==
    [gtm_accounts |-> 0, gtm_containers |-> 0, gtm_tags |-> 0, gtm_triggers |-> 0,
     gtm_variables |-> 0, ga_accounts |-> 0, ga_properties |-> 0, ga_streams |-> 0]

\* a variant that assigns the tag count of a container instead of adding it
RECURSIVE CountContainers_assign(_, _)
CountContainers_assign(conts, sm) ==
    IF conts = <<>> THEN sm
    ELSE CountContainers_assign(Tail(conts),
            [sm EXCEPT !.gtm_tags = Len(Head(conts).tags),
                       !.gtm_triggers = @ + Len(Head(conts).triggers),
                       !.gtm_variables = @ + Len(Head(conts).variables)])

\* `for cont in acc.containers`
RECURSIVE CountContainers(_, _)
CountContainers(conts, sm) ==
    IF conts = <<>> THEN sm
    ELSE CountContainers(Tail(conts),
            [sm EXCEPT !.gtm_tags = @ + Len(Head(conts).tags),
                       !.gtm_triggers = @ + Len(Head(conts).triggers),
                       !.gtm_variables = @ + Len(Head(conts).variables)])

\* `for acc in self.gtm_accounts`
RECURSIVE CountGtmAccounts(_, _)
CountGtmAccounts(accs, sm) ==
    IF accs = <<>> THEN sm
    ELSE CountGtmAccounts(Tail(accs),
            CountContainers(Head(accs).containers,
                [sm EXCEPT !.gtm_containers = @ + Len(Head(accs).containers)]))

\* `for prop in acc.properties`
RECURSIVE CountProperties(_, _)
CountProperties(props, sm) ==
    IF props = <<>> THEN sm
    ELSE CountProperties(Tail(props),
            [sm EXCEPT !.ga_streams = @ + Len(Head(props).data_streams)])

\* `for acc in self.ga_accounts`
RECURSIVE CountGaAccounts(_, _)
CountGaAccounts(accs, sm) ==
    IF accs = <<>> THEN sm
    ELSE CountGaAccounts(Tail(accs),
            CountProperties(Head(accs).properties,
                [sm EXCEPT !.ga_properties = @ + Len(Head(accs).properties)]))

\* AuditReport.summary: computed at every access from the lists as they are
summary(self) ==
    LET gtm == CountGtmAccounts(self.gtm_accounts,
                   [AuditSummary EXCEPT !.gtm_accounts = Len(self.gtm_accounts)])
    IN  CountGaAccounts(self.ga_accounts,
            [gtm EXCEPT !.ga_accounts = Len(self.ga_accounts)])

\* the places of the lists of a report
GtmContainerPlaces(r) ==
    UNION {{<<a, c>> : c \in DOMAIN r.gtm_accounts[a].containers} :
              a \in DOMAIN r.gtm_accounts}
GtmChildPlaces(r, field) ==
    UNION {{<<p[1], p[2], t>> :
               t \in DOMAIN r.gtm_accounts[p[1]].containers[p[2]][field]} :
              p \in GtmContainerPlaces(r)}
GaPropertyPlaces(r) ==
    UNION {{<<a, q>> : q \in DOMAIN r.ga_accounts[a].properties} :
              a \in DOMAIN r.ga_accounts}
GaStreamPlaces(r) ==
    UNION {{<<p[1], p[2], t>> :
               t \in DOMAIN r.ga_accounts[p[1]].properties[p[2]].data_streams} :
              p \in GaPropertyPlaces(r)}

\* how many objects the report holds
ReportSize(r) ==
    Len(r.gtm_accounts) + Cardinality(GtmContainerPlaces(r))
        + Cardinality(GtmChildPlaces(r, "tags"))
        + Cardinality(GtmChildPlaces(r, "triggers"))
        + Cardinality(GtmChildPlaces(r, "variables"))
        + Len(r.ga_accounts) + Cardinality(GaPropertyPlaces(r))
        + Cardinality(GaStreamPlaces(r))

CanAppend == ReportSize(report) < MaxAppends

\* the objects appended
SampleGtmAccount == GtmAccount_model_validate(CHOOSE raw \in RawAccounts : raw["accountId"] = "1")
SampleContainer == EmptyContainer
SampleTag == GtmTag_model_validate(RawHtmlTag)
SampleTrigger == GtmTrigger_model_validate(RawTrigger)
SampleVariable == GtmVariable_model_validate(RawVariableA)
SampleGaAccount == BuildGaAccount(CHOOSE raw \in RawGaAccounts : raw["displayName"] = "Acme")
SampleProperty ==
    BuildProperty(CHOOSE raw \in RawGaProperties : raw["displayName"] = "Site", <<>>)
SampleStream ==
    BuildDataStream(CHOOSE raw \in RawStreams : raw["displayName"] = "web")

\* report.gtm_accounts.append(...)
AppendGtmAccount ==
    /\ CanAppend
    /\ report' = [report EXCEPT !.gtm_accounts = Append(@, SampleGtmAccount)]
    /\ SummaryOnly

\* report.gtm_accounts[a].containers.append(...)
AppendGtmContainer ==
    /\ CanAppend
    /\ \E a \in DOMAIN report.gtm_accounts :
        report' = [report EXCEPT !.gtm_accounts[a].containers =
                                     Append(@, SampleContainer)]
    /\ SummaryOnly

\* container.tags.append(...), container.triggers.append(...),
\* container.variables.append(...)
AppendGtmChild ==
    /\ CanAppend
    /\ \E p \in GtmContainerPlaces(report) :
        \/ report' = [report EXCEPT !.gtm_accounts[p[1]].containers[p[2]].tags =
                                        Append(@, SampleTag)]
        \/ report' = [report EXCEPT !.gtm_accounts[p[1]].containers[p[2]].triggers =
                                        Append(@, SampleTrigger)]
        \/ report' = [report EXCEPT !.gtm_accounts[p[1]].containers[p[2]].variables =
                                        Append(@, SampleVariable)]
    /\ SummaryOnly

\* report.ga_accounts.append(...)
AppendGaAccount ==
    /\ CanAppend
    /\ report' = [report EXCEPT !.ga_accounts = Append(@, SampleGaAccount)]
    /\ SummaryOnly

\* report.ga_accounts[a].properties.append(...)
AppendGaProperty ==
    /\ CanAppend
    /\ \E a \in DOMAIN report.ga_accounts :
        report' = [report EXCEPT !.ga_accounts[a].properties =
                                     Append(@, SampleProperty)]
    /\ SummaryOnly

\* property.data_streams.append(...)
AppendGaStream ==
    /\ CanAppend
    /\ \E p \in GaPropertyPlaces(report) :
        report' = [report EXCEPT
                      !.ga_accounts[p[1]].properties[p[2]].data_streams =
                          Append(@, SampleStream)]
    /\ SummaryOnly

SummaryNext ==
    \/ AppendGtmAccount
    \/ AppendGtmContainer
    \/ AppendGtmChild
    \/ AppendGaAccount
    \/ AppendGaProperty
    \/ AppendGaStream

\* an AuditReport constructed over empty lists
InitSummary ==
    report = EmptyReport /\ GtmInit /\ MainIdle /\ GaIdle /\ LinksIdle /\ PresIdle

SpecSummary == InitSummary /\ [][SummaryNext]_vars

----------------------------------------------------------------------------
(* presenters.py: the GA4 linkage scan and the lines made of it. *)

ParamNoValue == [type |-> "list", key |-> "measurementId"]
ParamsOfTags ==
    {None,
     Some(<<>>),
     Some(<<[type |-> "template", key |-> "measurementId", value |-> "G-1"]>>),
     Some(<<[type |-> "template", key |-> "measurementId", value |-> "G-1"],
            [type |-> "boolean", key |-> "sendPageView", value |-> "true"],
            [type |-> "template", key |-> "measurementId", value |-> "G-2"]>>),
     Some(<<ParamNoValue>>),
     Some(<<[type |-> "template", value |-> "G-3"]>>)}

\* the GtmTag objects a container may hold
DomainTags ==
    {[name |-> "GA4 config", tag_id |-> "1", type |-> "googtag",
      firing_trigger_ids |-> <<>>, parameters |-> ps] : ps \in ParamsOfTags}
    \cup
    {[name |-> "Pixel", tag_id |-> "2", type |-> "html",
      firing_trigger_ids |-> <<>>, parameters |-> ps] :
        ps \in {None,
                Some(<<[type |-> "template", key |-> "measurementId", value |-> "G-9"]>>)}}

\* a variant that scans the parameters of every tag, whatever its type
TagMeasurementIds_anyType(tag) ==
    IF tag.parameters # None /\ TheValue(tag.parameters) # <<>>
    THEN {Get(TheValue(tag.parameters)[k], "value", "") :
            k \in {n \in DOMAIN TheValue(tag.parameters) :
                     "key" \in DOMAIN TheValue(tag.parameters)[n]
                     /\ TheValue(tag.parameters)[n]["key"] = "measurementId"}}
    ELSE {}

\* the body of `for tag in container.tags`: what one tag adds to ids
TagMeasurementIds(tag) ==
    IF tag.type = "googtag" /\ tag.parameters # None /\ TheValue(tag.parameters) # <<>>
    THEN {Get(TheValue(tag.parameters)[k], "value", "") :
            k \in {n \in DOMAIN TheValue(tag.parameters) :
                     "key" \in DOMAIN TheValue(tag.parameters)[n]
                     /\ TheValue(tag.parameters)[n]["key"] = "measurementId"}}
    ELSE {}

\* one pass of `for tag in container.tags`
ScanTag ==
    /\ link_pc = "scan"
    /\ link_tag_i <= Len(container.tags)
    /\ ids' = ids \cup TagMeasurementIds(container.tags[link_tag_i])
    /\ link_tag_i' = link_tag_i + 1
    /\ UNCHANGED <<link_pc, container, link_lines>>
    /\ LinksOnly

\* return ids
ScanReturn ==
    /\ link_pc = "scan"
    /\ link_tag_i > Len(container.tags)
    /\ link_pc' = "scanned"
    /\ UNCHANGED <<container, link_tag_i, ids, link_lines>>
    /\ LinksOnly

\* `if ga4_ids: for mid in ga4_ids: lines.append(...)`: one line per element,
\* in whatever order the set iterates
RenderLinks ==
    /\ link_pc = "scanned"
    /\ \E order \in [1..Cardinality(ids) -> ids] :
        /\ \A m \in ids : \E k \in DOMAIN order : order[k] = m
        /\ link_lines' = order
    /\ link_pc' = "rendered"
    /\ UNCHANGED <<container, link_tag_i, ids>>
    /\ LinksOnly

LinksNext ==
    \/ ScanTag
    \/ ScanReturn
    \/ RenderLinks

\* _extract_ga4_measurement_ids is entered with a container: ids = set()
InitLinks ==
    /\ link_pc = "scan"
    /\ container \in {[EmptyContainer EXCEPT !.tags = tags] :
                         tags \in SeqUpTo(DomainTags, MaxTags)}
    /\ link_tag_i = 1
    /\ ids = {}
    /\ link_lines = <<>>
    /\ GtmInit /\ MainIdle /\ GaIdle /\ report = EmptyReport /\ PresIdle

SpecLinks == InitLinks /\ [][LinksNext]_vars

----------------------------------------------------------------------------
(* presenters.py: format_text_report.  A line of the report is a record:   *)
(* its kind, the text and the id it shows, and the numbers it shows, in    *)
(* the order it shows them.                                                *)

Line(kind, text, id, counts) ==
    [kind |-> kind, text |-> text, id |-> id, counts |-> counts]

\* "=" * 50, title, "=" * 50
Heading(title) ==
    <<Line("rule", "", "", <<>>), Line("heading", title, "", <<>>),
      Line("rule", "", "", <<>>)>>

\* the truth value of an Optional[str]: None and "" are false
Truthy(opt) == opt # None /\ TheValue(opt) # ""

\* the tag types of the modelled world, in sorted() order
TagTypesSorted == <<"googtag", "html">>

\* the enumerations of a set: the orders in which `for x in s` may visit it
SetOrders(S) ==
    {o \in [1..Cardinality(S) -> S] : \A m \in S : \E k \in DOMAIN o : o[k] = m}

_extract_ga4_measurement_ids(c) ==
    UNION {TagMeasurementIds(c.tags[t]) : t \in DOMAIN c.tags}

\* `if ga4_ids: for mid in ga4_ids: lines.append(...)`, the set visited in
\* the order the elements have in `order`
LinkLines(ga4_ids, order) ==
    LET Member(m) == m \in ga4_ids
        mids == SelectSeq(order, Member)
    IN  [k \in 1..Len(mids) |-> Line("link", "", mids[k], <<>>)]

\* the tag-type histogram: "Tags (n):" and one line per type, sorted
TagLines(tags) ==
    LET Count(t) == Cardinality({k \in DOMAIN tags : tags[k].type = t})
        Present(t) == Count(t) > 0
        types == SelectSeq(TagTypesSorted, Present)
    IN  <<Line("tags", "", "", <<Len(tags)>>)>>
        \o [k \in 1..Len(types) |-> Line("tag_type", types[k], "", <<Count(types[k])>>)]

\* a variant without the `continue`: the counts follow the warning
ContainerBlock_noContinue(c, order) ==
    LET header == Line("container", c.name, c.public_id, <<>>)
        \* an f-string shows None as "None"
        live == IF c.live_version_id = None THEN "None"
                ELSE TheValue(c.live_version_id)
        first == IF Truthy(c.error)
                 THEN Line("warning", TheValue(c.error), "", <<>>)
                 ELSE Line("live_version", live, "", <<>>)
    IN  <<header, first>>
        \o LinkLines(_extract_ga4_measurement_ids(c), order)
        \o TagLines(c.tags)
        \o <<Line("triggers", "", "", <<Len(c.triggers)>>),
             Line("variables", "", "", <<Len(c.variables)>>)>>

\* the body of `for container in account.containers`
ContainerBlock(c, order) ==
    LET header == Line("container", c.name, c.public_id, <<>>)
        \* an f-string shows None as "None"
        live == IF c.live_version_id = None THEN "None"
                ELSE TheValue(c.live_version_id)
    IN  IF Truthy(c.error)
        THEN <<header, Line("warning", TheValue(c.error), "", <<>>)>>
        ELSE <<header, Line("live_version", live, "", <<>>)>>
             \o LinkLines(_extract_ga4_measurement_ids(c), order)
             \o TagLines(c.tags)
             \o <<Line("triggers", "", "", <<Len(c.triggers)>>),
                  Line("variables", "", "", <<Len(c.variables)>>)>>

RECURSIVE ContainerBlocks(_, _)
ContainerBlocks(conts, order) ==
    IF conts = <<>> THEN <<>>
    ELSE ContainerBlock(Head(conts), order) \o ContainerBlocks(Tail(conts), order)

\* the body of `for account in report.gtm_accounts`
RECURSIVE GtmAccountBlocks(_, _)
GtmAccountBlocks(accs, order) ==
    IF accs = <<>> THEN <<>>
    ELSE <<Line("account", Head(accs).name, Head(accs).account_id, <<>>)>>
         \o ContainerBlocks(Head(accs).containers, order)
         \o GtmAccountBlocks(Tail(accs), order)

\* `for stream in prop.data_streams: if stream.measurement_id: ...`
RECURSIVE StreamLines(_)
StreamLines(streams) ==
    IF streams = <<>> THEN <<>>
    ELSE (IF Truthy(Head(streams).measurement_id)
          THEN <<Line("stream", Head(streams).display_name,
                      TheValue(Head(streams).measurement_id), <<>>)>>
          ELSE <<>>)
         \o StreamLines(Tail(streams))

\* the body of `for prop in account.properties`
RECURSIVE PropertyBlocks(_)
PropertyBlocks(props) ==
    IF props = <<>> THEN <<>>
    ELSE <<Line("property", Head(props).display_name, Head(props).property_id, <<>>),
           Line("timezone", Head(props).time_zone, Head(props).currency_code, <<>>)>>
         \o StreamLines(Head(props).data_streams)
         \o PropertyBlocks(Tail(props))

\* the body of `for account in report.ga_accounts`
RECURSIVE GaAccountBlocks(_)
GaAccountBlocks(accs) ==
    IF accs = <<>> THEN <<>>
    ELSE <<Line("account", Head(accs).display_name, Head(accs).account_id, <<>>)>>
         \o PropertyBlocks(Head(accs).properties)
         \o GaAccountBlocks(Tail(accs))

\* the two lines of counts and the closing empty line
SummaryLines(s) ==
    <<Line("summary_gtm", "", "",
           <<s.gtm_accounts, s.gtm_containers, s.gtm_tags, s.gtm_triggers,
             s.gtm_variables>>),
      Line("summary_ga", "", "", <<s.ga_accounts, s.ga_properties, s.ga_streams>>),
      Line("blank", "", "", <<>>)>>

format_text_report(r, order) ==
    Heading("GOOGLE TAG MANAGER")
    \o GtmAccountBlocks(r.gtm_accounts, order)
    \o Heading("GOOGLE ANALYTICS 4")
    \o GaAccountBlocks(r.ga_accounts)
    \o Heading("SUMMARY")
    \o SummaryLines(summary(r))

\* every measurement id the containers of a report link to
ReportMeasurementIds(r) ==
    UNION {UNION {_extract_ga4_measurement_ids(r.gtm_accounts[a].containers[k]) :
                     k \in DOMAIN r.gtm_accounts[a].containers} :
              a \in DOMAIN r.gtm_accounts}

----------------------------------------------------------------------------
(* presenters.py: format_json_report, that is model_dump_json with         *)
(* by_alias=True.  A JSON object is a function of its keys, a JSON array a *)
(* sequence, and an Optional[str] stays a set of at most one string (null  *)
(* is None).                                                               *)

\* by_alias=True: a field is written under its alias when it declares one,
\* under its own name otherwise
DumpKey(aliases, name) == IF name \in DOMAIN aliases THEN aliases[name] ELSE name

\* the object written for a model whose field values are already dumped;
\* `aliases` are the aliases the fields of the model declare in models.py
model_dump(obj, aliases) ==
    [key \in {DumpKey(aliases, name) : name \in DOMAIN obj} |->
        obj[CHOOSE name \in DOMAIN obj : DumpKey(aliases, name) = key]]

GtmVariable_dump(v) == model_dump(v, [variable_id |-> "variableId"])
GtmTrigger_dump(t) == model_dump(t, [trigger_id |-> "triggerId"])
GtmTag_dump(t) == model_dump(t, [tag_id |-> "tagId", firing_trigger_ids |-> "firingTriggerId"])
GtmContainer_dump(c) ==
    model_dump([c EXCEPT
                   !.tags = [k \in DOMAIN c.tags |-> GtmTag_dump(c.tags[k])],
                   !.triggers = [k \in DOMAIN c.triggers |-> GtmTrigger_dump(c.triggers[k])],
                   !.variables = [k \in DOMAIN c.variables |-> GtmVariable_dump(c.variables[k])]],
               [public_id |-> "publicId", container_id |-> "containerId"])
GtmAccount_dump(a) ==
    model_dump([a EXCEPT
                   !.containers = [k \in DOMAIN a.containers |->
                                      GtmContainer_dump(a.containers[k])]],
               [account_id |-> "accountId"])
GaDataStream_dump(s) == model_dump(s, [display_name |-> "displayName"])
GaProperty_dump(p) ==
    model_dump([p EXCEPT
                   !.data_streams = [k \in DOMAIN p.data_streams |->
                                        GaDataStream_dump(p.data_streams[k])]],
               [display_name |-> "displayName", time_zone |-> "timeZone",
                currency_code |-> "currencyCode", data_streams |-> "dataStreams"])
GaAccount_dump(a) ==
    model_dump([a EXCEPT
                   !.properties = [k \in DOMAIN a.properties |->
                                      GaProperty_dump(a.properties[k])]],
               [display_name |-> "displayName"])

\* the two lists and the computed field `summary`
format_json_report(r) ==
    model_dump([gtm_accounts |-> [k \in DOMAIN r.gtm_accounts |->
                                     GtmAccount_dump(r.gtm_accounts[k])],
                ga_accounts |-> [k \in DOMAIN r.ga_accounts |->
                                    GaAccount_dump(r.ga_accounts[k])],
                summary |-> summary(r)],
               <<>>)

----------------------------------------------------------------------------
(* A run that fetches one hierarchy, assembles the report and presents it. *)

\* the report object is assembled from what build_gtm_accounts returned
AssembleGtmReport ==
    /\ gtm_pc = "returned"
    /\ pres_pc = "idle"
    /\ report' = [gtm_accounts |-> gtm_accounts_list, ga_accounts |-> <<>>]
    /\ pres_pc' = "assembled"
    /\ UNCHANGED <<text_out, json_out>>
    /\ PresentOnly

\* the report object is assembled from what build_ga_accounts returned
AssembleGaReport ==
    /\ ga_pc = "returned"
    /\ pres_pc = "idle"
    /\ report' = [gtm_accounts |-> <<>>, ga_accounts |-> ga_accounts_list]
    /\ pres_pc' = "assembled"
    /\ UNCHANGED <<text_out, json_out>>
    /\ PresentOnly

\* format_text_report(report); the sets of measurement ids are visited in
\* some order
FormatTextReport ==
    /\ pres_pc = "assembled"
    /\ \E order \in SetOrders(ReportMeasurementIds(report)) :
        text_out' = format_text_report(report, order)
    /\ pres_pc' = "text"
    /\ UNCHANGED <<report, json_out>>
    /\ PresentOnly

\* format_json_report(report)
FormatJsonReport ==
    /\ pres_pc = "assembled"
    /\ json_out' = Some(format_json_report(report))
    /\ pres_pc' = "json"
    /\ UNCHANGED <<report, text_out>>
    /\ PresentOnly

GtmReportNext ==
    \/ GtmNext
    \/ AssembleGtmReport
    \/ FormatTextReport
    \/ FormatJsonReport

SpecGtmReport == Init /\ [][GtmReportNext]_vars

GaReportNext ==
    \/ GaNext
    \/ AssembleGaReport
    \/ FormatTextReport
    \/ FormatJsonReport

SpecGaReport == InitGa /\ [][GaReportNext]_vars

----------------------------------------------------------------------------
(* Claims about build_gtm_accounts (specification Spec). *)

\* the answer the live-version lookup gave for container k of finished account a
LiveAnswer(a, k) == gtm_live_log[a][k]
BuiltContainer(a, k) == gtm_accounts_list[a].containers[k]
BuiltPairs ==
    UNION {{<<a, k>> : k \in DOMAIN gtm_accounts_list[a].containers} :
              a \in DOMAIN gtm_accounts_list}

\* C1: when build_gtm_accounts has returned, every returned container whose
\* live-version lookup answered 404 carries a non-empty error string, has
\* empty tags, triggers and variables, and has no live version id.
C1_NoLiveVersionIsDegraded ==
    gtm_pc = "returned" =>
        \A p \in BuiltPairs :
            LiveAnswer(p[1], p[2]).status = 404 =>
                LET c == BuiltContainer(p[1], p[2])
                IN  /\ c.error # None
                    /\ TheValue(c.error) # ""
                    /\ c.tags = <<>>
                    /\ c.triggers = <<>>
                    /\ c.variables = <<>>
                    /\ c.live_version_id = None

C1_Witness ==
    /\ gtm_pc = "returned"
    /\ \E p \in BuiltPairs : LiveAnswer(p[1], p[2]).status = 404
    /\ \E p \in BuiltPairs : LiveAnswer(p[1], p[2]).ok

\* C2: the only HTTP failure build_gtm_accounts absorbs is a 404 of the
\* live-version lookup.  Every other failed call is the last call made, its
\* HttpError is what left the function, and nothing is returned; a 404 of
\* the live-version lookup never leaves the function.
Absorbed(c) == c.call = "live" /\ c.status = 404
C2_OnlyLive404Absorbed ==
    /\ \A k \in DOMAIN gtm_calls :
          (gtm_calls[k].status # 200 /\ ~Absorbed(gtm_calls[k])) =>
              /\ k = Len(gtm_calls)
              /\ gtm_pc = "raised"
              /\ gtm_raised = HttpError(gtm_calls[k].call, gtm_calls[k].status)
    /\ gtm_raised.type = "HttpError" => ~Absorbed(gtm_raised)
    /\ gtm_pc = "returned" =>
          \A k \in DOMAIN gtm_calls :
              gtm_calls[k].status = 200 \/ Absorbed(gtm_calls[k])

\* a run that absorbed a live-version 404 and then died of a 404 of the
\* container listing
C2_Witness ==
    /\ gtm_pc = "raised"
    /\ gtm_raised = HttpError("containers", 404)
    /\ \E k \in DOMAIN gtm_calls : k < Len(gtm_calls) /\ Absorbed(gtm_calls[k])

\* C7: every built container whose live-version lookup answered with a
\* payload has as many tags, triggers and variables as the payload has entries
\* under "tag", "trigger" and "variable" (none when the key is absent), and
\* has no error.
RawCount(payload, key) == IF key \in DOMAIN payload THEN Len(payload[key]) ELSE 0
C7_CountsMatchPayload ==
    \A p \in BuiltPairs :
        LiveAnswer(p[1], p[2]).ok =>
            LET c == BuiltContainer(p[1], p[2])
                payload == TheValue(LiveAnswer(p[1], p[2]).body)
            IN  /\ Len(c.tags) = RawCount(payload, "tag")
                /\ Len(c.triggers) = RawCount(payload, "trigger")
                /\ Len(c.variables) = RawCount(payload, "variable")
                /\ c.error = None

\* both well-formed payloads were built: the one without a "variable" key
\* and the one with two variables and an empty trigger list
C7_Witness ==
    /\ gtm_pc = "returned"
    /\ \E p \in BuiltPairs :
          /\ LiveAnswer(p[1], p[2]).ok
          /\ "variable" \notin DOMAIN TheValue(LiveAnswer(p[1], p[2]).body)
          /\ Len(BuiltContainer(p[1], p[2]).tags) = 2
    /\ \E p \in BuiltPairs :
          /\ LiveAnswer(p[1], p[2]).ok
          /\ Len(BuiltContainer(p[1], p[2]).variables) = 2

\* C8: when build_gtm_accounts has returned, the result holds one GtmAccount
\* per account of the listing, in listing order, and each account holds one
\* container per entry of its container listing, in listing order, with or
\* without a live version.
SameAccount(model, raw) ==
    model.name = raw["name"] /\ model.account_id = raw["accountId"]
SameContainer(model, raw) ==
    /\ model.name = raw["name"]
    /\ model.public_id = raw["publicId"]
    /\ model.container_id = raw["containerId"]
C8_ListingOrderKept ==
    gtm_pc = "returned" =>
        /\ Len(gtm_accounts_list) = Len(gtm_listing)
        /\ \A a \in DOMAIN gtm_accounts_list :
              /\ SameAccount(gtm_accounts_list[a], gtm_listing[a])
              /\ Len(gtm_accounts_list[a].containers) = Len(gtm_cont_log[a])
              /\ \A k \in DOMAIN gtm_cont_log[a] :
                    SameContainer(gtm_accounts_list[a].containers[k], gtm_cont_log[a][k])

\* two different accounts; the first lists two different containers of which
\* the first has no live version, the second account lists one more
C8_Witness ==
    /\ gtm_pc = "returned"
    /\ Len(gtm_listing) = 2
    /\ gtm_listing[1] # gtm_listing[2]
    /\ Len(gtm_cont_log[1]) = 2
    /\ gtm_cont_log[1][1] # gtm_cont_log[1][2]
    /\ gtm_live_log[1][1].status = 404
    /\ gtm_live_log[1][2].ok
    /\ Len(gtm_cont_log[2]) = 1

----------------------------------------------------------------------------
(* Claims about main (specification SpecMain). *)

ReportEmitted == \E k \in DOMAIN stdout : stdout[k].kind = "report"
Failures == {"config_failure", "auth_failure", "api_failure"}

\* C3: the exit code is 0 exactly when the run succeeds; a run that ends in
\* a configuration, authentication or API failure exits with code 1.
C3_ExitCodeTellsFailure ==
    main_pc = "exited" =>
        /\ (exit_code = Some(0)) <=> (main_outcome = "success")
        /\ main_outcome \in Failures => exit_code = Some(1)

\* C4: a report is on standard output only after the GTM traversal and then
\* the GA4 traversal have both returned; a run that ended in any failure has
\* emitted no report, and one that ended in a configuration or credentials
\* failure has made no API call.
C4_NoPartialReport ==
    /\ ReportEmitted => (m_built = {"gtm", "ga"} /\ main_outcome = "success")
    /\ "ga" \in m_built => "gtm" \in m_built
    /\ (main_pc = "exited" /\ main_outcome # "success") => ~ReportEmitted
    /\ main_outcome \in {"config_failure", "auth_failure"} => api_calls = 0

\* a run that died of an HTTP error in the GA4 traversal, after the GTM
\* traversal had returned and GA4 requests had been answered
C4_Witness ==
    /\ main_pc = "exited"
    /\ main_outcome = "api_failure"
    /\ m_built = {"gtm"}
    /\ api_calls > 4
    /\ ~ReportEmitted

\* C5: standard output carries only report content: no status line and no
\* error message is ever written to it, and the standard output of a
\* successful --json run is exactly the JSON report.
C5_StdoutOnlyReport ==
    /\ \A k \in DOMAIN stdout : stdout[k].kind = "report"
    /\ (main_pc = "exited" /\ main_outcome = "success" /\ args_json) =>
          stdout = <<[kind |-> "report", text |-> "json"]>>

----------------------------------------------------------------------------
(* Claims about AuditReport.summary (specification SpecSummary). *)

\* C6: after any sequence of appends to the lists of a report, each of the
\* eight counters of report.summary equals a direct recount of the lists as
\* they are now.
C6_SummaryIsRecount ==
    summary(report) =
        [gtm_accounts |-> Cardinality(DOMAIN report.gtm_accounts),
         gtm_containers |-> Cardinality(GtmContainerPlaces(report)),
         gtm_tags |-> Cardinality(GtmChildPlaces(report, "tags")),
         gtm_triggers |-> Cardinality(GtmChildPlaces(report, "triggers")),
         gtm_variables |-> Cardinality(GtmChildPlaces(report, "variables")),
         ga_accounts |-> Cardinality(DOMAIN report.ga_accounts),
         ga_properties |-> Cardinality(GaPropertyPlaces(report)),
         ga_streams |-> Cardinality(GaStreamPlaces(report))]

\* a container with a tag is followed by a container appended after it, and
\* the GA4 side holds a property
C6_Witness ==
    /\ Len(report.gtm_accounts) = 1
    /\ Len(report.gtm_accounts[1].containers) = 2
    /\ Len(report.gtm_accounts[1].containers[1].tags) = 1
    /\ Len(report.gtm_accounts[1].containers[2].tags) = 0
    /\ summary(report).gtm_tags = 1
    /\ summary(report).ga_accounts = 1

----------------------------------------------------------------------------
(* Claims about build_ga_accounts (specification SpecGa). *)

BuiltStreamPlaces ==
    UNION {{<<p[1], p[2], n>> :
               n \in DOMAIN ga_accounts_list[p[1]].properties[p[2]].data_streams} :
              p \in UNION {{<<a, q>> : q \in DOMAIN ga_accounts_list[a].properties} :
                              a \in DOMAIN ga_accounts_list}}
BuiltStream(p) == ga_accounts_list[p[1]].properties[p[2]].data_streams[p[3]]
RawStream(p) == ga_stream_log[p[1]][p[2]][p[3]]
Nested(raw, outer, inner) ==
    IF outer \in DOMAIN raw
    THEN (IF inner \in DOMAIN raw[outer] THEN {raw[outer][inner]} ELSE {})
    ELSE {}
EndsWith(str, suffix) ==
    /\ Len(str) >= Len(suffix)
    /\ SubSeq(str, Len(str) - Len(suffix) + 1, Len(str)) = suffix

\* C9: every data stream the API returned is built into one GaDataStream, in
\* listing order, whose type is the raw type without its _DATA_STREAM suffix
\* and whose identifier is decided by that type alone:
\* webStreamData.measurementId for WEB, iosAppStreamData.firebaseAppId for
\* IOS_APP, androidAppStreamData.firebaseAppId for ANDROID_APP, and none for
\* any other type, whatever nested fields the raw stream carries.
C9_IdentifierByType ==
    /\ \A a \in DOMAIN ga_accounts_list : \A q \in DOMAIN ga_accounts_list[a].properties :
          Len(ga_accounts_list[a].properties[q].data_streams) = Len(ga_stream_log[a][q])
    /\ \A p \in BuiltStreamPlaces :
          LET built == BuiltStream(p)
              raw == RawStream(p)
          IN  /\ IF EndsWith(raw["type"], _DATA_STREAM)
                 THEN built.type \o _DATA_STREAM = raw["type"]
                 ELSE built.type = raw["type"]
              /\ built.type = <<"WEB">> =>
                    built.measurement_id = Nested(raw, "webStreamData", "measurementId")
              /\ built.type = <<"IOS", "_", "APP">> =>
                    built.measurement_id = Nested(raw, "iosAppStreamData", "firebaseAppId")
              /\ built.type = <<"ANDROID", "_", "APP">> =>
                    built.measurement_id =
                        Nested(raw, "androidAppStreamData", "firebaseAppId")
              /\ built.type \notin {<<"WEB">>, <<"IOS", "_", "APP">>, <<"ANDROID", "_", "APP">>} =>
                    built.measurement_id = {}

\* a returned property with an iOS stream that got its Firebase app id and a
\* stream of unspecified type that carries webStreamData and got none
C9_Witness ==
    /\ ga_pc = "returned"
    /\ \E p \in BuiltStreamPlaces :
          /\ BuiltStream(p).type = <<"IOS", "_", "APP">>
          /\ BuiltStream(p).measurement_id = {"1:ios"}
    /\ \E p \in BuiltStreamPlaces :
          /\ BuiltStream(p).type \notin {<<"WEB">>, <<"IOS", "_", "APP">>, <<"ANDROID", "_", "APP">>}
          /\ "webStreamData" \in DOMAIN RawStream(p)
          /\ BuiltStream(p).measurement_id = {}

----------------------------------------------------------------------------
(* Claims about the GA4 linkage scan (specification SpecLinks). *)

\* the parameter entries with key measurementId of the googtag tags
MeasurementEntries ==
    UNION {IF container.tags[t].type = "googtag" /\ container.tags[t].parameters # {}
           THEN UNION {{ps[n] : n \in {m \in DOMAIN ps :
                                        /\ "key" \in DOMAIN ps[m]
                                        /\ ps[m]["key"] = "measurementId"}} :
                          ps \in container.tags[t].parameters}
           ELSE {} :
           t \in DOMAIN container.tags}

\* C10 as stated: the linked ids are the distinct values of the parameter
\* entries with key measurementId of the container's googtag tags.
C10_IdsAreEntryValues ==
    link_pc \in {"scanned", "rendered"} =>
        ids = {e["value"] : e \in {x \in MeasurementEntries : "value" \in DOMAIN x}}

\* C10, amended: the linked ids are the distinct values of the parameter
\* entries with key measurementId of the container's googtag tags, an entry
\* that has no value counting as the empty string; duplicates are collapsed,
\* tags of another type or without parameters add nothing, and one linkage
\* line is rendered per linked id.
C10_IdsAreEntryValuesOrEmpty ==
    /\ link_pc \in {"scanned", "rendered"} =>
          ids = {IF "value" \in DOMAIN e THEN e["value"] ELSE "" : e \in MeasurementEntries}
    /\ link_pc = "rendered" =>
          /\ Len(link_lines) = Cardinality(ids)
          /\ {link_lines[k] : k \in DOMAIN link_lines} = ids

\* two googtag tags that both name G-1, one of them also G-2: two ids, two lines
C10_Witness ==
    /\ link_pc = "rendered"
    /\ Len(container.tags) = 2
    /\ \A t \in DOMAIN container.tags :
          /\ container.tags[t].type = "googtag"
          /\ container.tags[t].parameters # {}
          /\ \E ps \in container.tags[t].parameters : \E n \in DOMAIN ps :
                /\ DOMAIN ps[n] = {"type", "key", "value"}
                /\ ps[n]["key"] = "measurementId"
                /\ ps[n]["value"] = "G-1"
    /\ ids = {"G-1", "G-2"}
    /\ Len(link_lines) = 2

----------------------------------------------------------------------------
(* Claims about the text report of a fetched GTM hierarchy (specification  *)
(* SpecGtmReport).                                                         *)

\* the lines that end the block of a container
BlockBreaks == {"container", "account", "rule"}
ContainerHeaders == {i \in DOMAIN text_out : text_out[i].kind = "container"}
\* the position in the report of container k of account a, counting from 1
PlaceNumber(p) ==
    SumLen([i \in 1..(p[1] - 1) |-> gtm_accounts_list[i].containers]) + p[2]
\* the block of the n-th container: its header line and the lines after it,
\* up to the next container, account or section
TextBlock(n) ==
    LET first == CHOOSE i \in ContainerHeaders :
                     Cardinality({j \in ContainerHeaders : j <= i}) = n
        last == CHOOSE e \in first..Len(text_out) :
                    /\ \A j \in (first + 1)..e : text_out[j].kind \notin BlockBreaks
                    /\ e = Len(text_out) \/ text_out[e + 1].kind \in BlockBreaks
    IN  SubSeq(text_out, first, last)
ShowsCount(block, kind, n) ==
    \E i \in DOMAIN block : block[i].kind = kind /\ block[i].counts = <<n>>

RawMeasurementEntries(raw) ==
    IF raw["type"] = "googtag" /\ "parameter" \in DOMAIN raw
    THEN {e \in DOMAIN raw["parameter"] :
             /\ Get(raw["parameter"][e], "key", "") = "measurementId"
             /\ "value" \in DOMAIN raw["parameter"][e]}
    ELSE {}

\* C13: end to end, for every returned container whose live-version payload
\* holds a googtag tag with a `parameter` entry of key measurementId and
\* value v, the GtmTag built of it carries that parameter list and the
\* block of the container in the text report has a GA4 linkage line for v.
C13_PayloadLinkRendered ==
    pres_pc = "text" =>
        \A p \in BuiltPairs :
            LiveAnswer(p[1], p[2]).ok =>
                LET raw_tags == Get(TheValue(LiveAnswer(p[1], p[2]).body), "tag", <<>>)
                    c == BuiltContainer(p[1], p[2])
                    block == TextBlock(PlaceNumber(p))
                IN  \A t \in DOMAIN raw_tags :
                        \A e \in RawMeasurementEntries(raw_tags[t]) :
                            /\ c.tags[t].parameters = Some(raw_tags[t]["parameter"])
                            /\ \E i \in DOMAIN block :
                                  /\ block[i].kind = "link"
                                  /\ block[i].id = raw_tags[t]["parameter"][e]["value"]

----------------------------------------------------------------------------
(* Claims about the JSON report of a fetched GA4 hierarchy (specification  *)
(* SpecGaReport).                                                          *)

\* the data streams of the report: <<account, property, stream>>
ReportStreamPlaces ==
    UNION {UNION {{<<a, j, s>> :
                      s \in DOMAIN report.ga_accounts[a].properties[j].data_streams} :
                     j \in DOMAIN report.ga_accounts[a].properties} :
              a \in DOMAIN report.ga_accounts}
ReportStream(p) == report.ga_accounts[p[1]].properties[p[2]].data_streams[p[3]]
\* the object written for a data stream, found by the keys the API uses
JsonStream(p) ==
    TheValue(json_out)["ga_accounts"][p[1]]["properties"][p[2]]["dataStreams"][p[3]]

\* C12: in the JSON report, the object of every data stream that has an
\* identifier carries that identifier under the key measurementId.
C12_StreamCarriesMeasurementId ==
    pres_pc = "json" =>
        \A p \in ReportStreamPlaces :
            ReportStream(p).measurement_id # None =>
                /\ "measurementId" \in DOMAIN JsonStream(p)
                /\ JsonStream(p)["measurementId"] = ReportStream(p).measurement_id

====
